---- MODULE Spec2Model ----
(***************************************************************************)
(* Consistent-hash load balancer: the hash ring (ConsistentHash), the      *)
(* server pool (LoadBalancer / Server) and the active health checker       *)
(* (HealthChecker), modelled from src/src/core and src/src/utils.          *)
(***************************************************************************)
EXTENDS Integers, Sequences, FiniteSets, TLC

VARIABLES
    hash_name,      \* which entry of get_hash_function's table the ring was built with
    ring,           \* ConsistentHash.ring: hash value -> node name
    sorted_keys,    \* ConsistentHash.sorted_keys
    nodes,          \* ConsistentHash.nodes: node name -> list of hash values
    servers,        \* LoadBalancer.servers: name -> Server record
    last,           \* the last operation, its arguments and what it returned / raised
    hc_servers,     \* HealthChecker._servers: server_id -> check_type
    check_counters, \* HealthChecker._check_counters: server_id -> <<healthy_count, unhealthy_count>>
    last_results,   \* HealthChecker._last_results: server_id -> is_healthy of the last result
    loop,           \* HealthChecker._check_thread and _stop_event, and where _check_loop is
    lock,           \* LoadBalancer.lock: the thread holding it, or None
    wr,             \* the thread that changes the membership: where it is in add_server / remove_server
    srv,            \* one Server object's request_count, error_count, response_times
    thr             \* the threads calling in: where each is in record_request / record_error,
                    \* or in start / stop of the checker

poolVars == <<hash_name, ring, sorted_keys, nodes, servers>>
hcVars == <<hc_servers, check_counters, last_results, loop>>
thrVars == <<lock, wr, srv, thr>>
vars == <<hash_name, ring, sorted_keys, nodes, servers, last, hc_servers, check_counters,
          last_results, loop, lock, wr, srv, thr>>

----------------------------------------------------------------------------
(* Bounds and inputs *)

\* largest server weight the model registers
MaxWeight == 1

\* virtual nodes per weight unit: range(weight * 100)
VNodesPerWeight == 100

\* HealthChecker.__init__ defaults
healthy_threshold == 2
unhealthy_threshold == 3

\* the health checker's counters are followed up to this many consecutive checks
MaxCount == 4

CheckTypes == {"tcp", "custom"}

\* Server.__init__: weight: int = 1
DefaultWeight == 1

\* the requests proxied to one server that the model follows
MaxRequests == 1

\* the calls of record_request of the window test, for i in range(150)
SampleRuns == 150

\* the number of threads recording on one server at the same time
NumThreads == 2

\* Server.record_request keeps the most recent 100 response times
WindowSize == 100

\* the weight of the heavy node of the weight tests, add_node("heavy_node", weight=3)
HeavyWeight == 3

Threads == 1 .. NumThreads

Names == {"s1", "s2"}
\* the names of a pool of three servers
MoreNames == Names \cup {"s3"}
Weights == 1 .. MaxWeight
\* the weights given to ConsistentHash.add_node used on its own
RingWeights == Weights \cup {HeavyWeight}
\* the largest number of virtual nodes of one node
MaxPoints == (CHOOSE w \in RingWeights : \A v \in RingWeights : v <= w) * VNodesPerWeight
\* the weights a caller can hand to Server(...) and add_server: any integer
AnyWeights == {-1, 0, 1}
\* <<address, port>> of a registered server
Endpoints == {<<"localhost", 8001>>, <<"localhost", 9001>>}
OneEndpoint == <<"localhost", 8001>>
\* the values time.time() returns
Times == {"t1", "t2"}
\* the counts given to get_nodes
Counts == {-1, 0, 1, 3}
Keys == {"", "s2:12", "key1", "zzzz"}
HashNames == {"simple", "djb2"}

\* keys = [f"key_{i}" for i in range(100)]
NumKeys == 100

None == "None"
KeyError == "KeyError"
ValueError == "ValueError"

\* ord() of every character of the strings the model uses
Chars(s) ==
    CASE s = "s1" -> <<115, 49>>
      [] s = "s2" -> <<115, 50>>
      [] s = "s3" -> <<115, 51>>
      [] s = "" -> <<>>
      [] s = "s2:12" -> <<115, 50, 58, 49, 50>>
      [] s = "key1" -> <<107, 101, 121, 49>>
      [] s = "zzzz" -> <<122, 122, 122, 122>>

\* str(i) for i >= 0, as character codes
RECURSIVE DecStr(_)
DecStr(i) == IF i < 10 THEN <<48 + i>> ELSE DecStr(i \div 10) \o <<48 + (i % 10)>>

\* f"key_{i}"
SampleKey(i) == <<107, 101, 121, 95>> \o DecStr(i)

\* f"{node_name}:{i}"
virtual_node_name(node_name, i) == Chars(node_name) \o <<58>> \o DecStr(i)

----------------------------------------------------------------------------
(* utils/hashing.py *)

RECURSIVE SumOrd(_, _)
SumOrd(cs, i) == IF i > Len(cs) THEN 0 ELSE cs[i] + SumOrd(cs, i + 1)

simple_hash(cs) == SumOrd(cs, 1)

\* hash_val * 33 + c modulo 2^32, on the 16-bit halves <<hi, lo>> of hash_val
Djb2Step(h, c) ==
    LET l == h[2] * 33 + c
    IN  <<(h[1] * 33 + (l \div 65536)) % 65536, l % 65536>>

RECURSIVE Djb2Fold(_, _, _)
Djb2Fold(h, cs, i) == IF i > Len(cs) THEN h ELSE Djb2Fold(Djb2Step(h, cs[i]), cs, i + 1)

\* 5381 = 0 * 65536 + 5381; the result is hash_val & 0xFFFFFFFF
djb2_hash(cs) ==
    LET h == Djb2Fold(<<0, 5381>>, cs, 1)
    IN  h[1] * 65536 + h[2]

hash_func(hn, cs) == IF hn = "simple" THEN simple_hash(cs) ELSE djb2_hash(cs)

\* hash_func(f"{node_name}:{i}") for the virtual nodes the model creates
VirtualHash ==
    [hn \in HashNames |-> [n \in MoreNames |->
        [i \in 0 .. MaxPoints - 1 |-> hash_func(hn, virtual_node_name(n, i))]]]

----------------------------------------------------------------------------
(* core/consistent_hash.py; R is the record [ring, sorted_keys, nodes] *)

EmptyRing == [ring |-> <<>>, sorted_keys |-> <<>>, nodes |-> <<>>]

\* the binary search of bisect.bisect_left: the first position (0-based) whose
\* element is >= x, Len(a) when there is none
RECURSIVE BisectLeftLoop(_, _, _, _)
BisectLeftLoop(a, x, lo, hi) ==
    IF lo >= hi THEN lo
    ELSE LET mid == (lo + hi) \div 2
         IN  IF a[mid + 1] < x THEN BisectLeftLoop(a, x, mid + 1, hi)
             ELSE BisectLeftLoop(a, x, lo, mid)

bisect_left(a, x) == BisectLeftLoop(a, x, 0, Len(a))

\* the binary search of bisect.bisect_right: the first position whose element is > x
RECURSIVE BisectRightLoop(_, _, _, _)
BisectRightLoop(a, x, lo, hi) ==
    IF lo >= hi THEN lo
    ELSE LET mid == (lo + hi) \div 2
         IN  IF x < a[mid + 1] THEN BisectRightLoop(a, x, lo, mid)
             ELSE BisectRightLoop(a, x, mid + 1, hi)

\* the value put at the end of the list, wherever it belongs
insort_Append(a, x) == Append(a, x)

\* bisect.insort (insort_right): a.insert(bisect_right(a, x), x)
insort(a, x) ==
    LET p == BisectRightLoop(a, x, 0, Len(a))
    IN  SubSeq(a, 1, p) \o <<x>> \o SubSeq(a, p + 1, Len(a))

ListHas(a, x) == \E j \in 1 .. Len(a) : a[j] = x

\* list.remove(x): drop the first occurrence (the caller checks x is there)
ListRemove(a, x) ==
    LET S == {j \in 1 .. Len(a) : a[j] = x}
        p == CHOOSE j \in S : \A m \in S : j <= m
    IN  SubSeq(a, 1, p - 1) \o SubSeq(a, p + 1, Len(a))

\* d[k] = v and d.pop(k); @@ keeps the mapping an explicit table of pairs
DictSet(d, k, v) == (k :> v) @@ d
DictPop(d, k) == [x \in DOMAIN d \ {k} |-> d[x]] @@ <<>>

\* one iteration of add_node's loop, lines 49-54
AddPoint(hn, R, node_name, i) ==
    LET hash_value == VirtualHash[hn][node_name][i]
    IN  [ring |-> DictSet(R.ring, hash_value, node_name),
         sorted_keys |-> insort(R.sorted_keys, hash_value),
         nodes |-> [R.nodes EXCEPT ![node_name] = Append(@, hash_value)]]

\* iterations lo .. hi-1 of add_node's loop, in order (split in halves, the
\* first half evaluated before the second starts, to keep the evaluation shallow)
RECURSIVE AddLoop(_, _, _, _, _)
AddLoop(hn, R, node_name, lo, hi) ==
    IF lo >= hi THEN R
    ELSE IF hi = lo + 1 THEN AddPoint(hn, R, node_name, lo)
    ELSE LET mid == (lo + hi) \div 2
             R1 == AddLoop(hn, R, node_name, lo, mid)
         IN  IF Len(R1.sorted_keys) >= 0 THEN AddLoop(hn, R1, node_name, mid, hi) ELSE R1

\* add_node without the test for a name that is on the ring already
add_node_Again(hn, R, node_name, weight) ==
    AddLoop(hn, [R EXCEPT !.nodes = DictSet(R.nodes, node_name, <<>>)],
            node_name, 0, weight * VNodesPerWeight)

add_node(hn, R, node_name, weight) ==
    IF node_name \in DOMAIN R.nodes
    THEN R
    ELSE AddLoop(hn, [R EXCEPT !.nodes = DictSet(R.nodes, node_name, <<>>)],
                 node_name, 0, weight * VNodesPerWeight)

\* one iteration of remove_node's loop, lines 67-69, on the j-th recorded hash
\* value; X is [R, raised]: once an exception has left the loop nothing more runs
RemovePoint(X, node_name, j) ==
    LET R == X.R
        hash_value == R.nodes[node_name][j]
    IN  IF X.raised # None THEN X
        ELSE IF hash_value \notin DOMAIN R.ring
        THEN [R |-> R, raised |-> KeyError]
        ELSE LET R1 == [R EXCEPT !.ring = DictPop(R.ring, hash_value)]
             IN  IF ~ListHas(R.sorted_keys, hash_value)
                 THEN [R |-> R1, raised |-> ValueError]
                 ELSE [R |-> [R1 EXCEPT !.sorted_keys = ListRemove(R.sorted_keys, hash_value)],
                       raised |-> None]

\* iterations lo .. hi of remove_node's loop, in order
RECURSIVE RemoveLoop(_, _, _, _)
RemoveLoop(X, node_name, lo, hi) ==
    IF lo > hi \/ X.raised # None THEN X
    ELSE IF hi = lo THEN RemovePoint(X, node_name, lo)
    ELSE LET mid == (lo + hi) \div 2
             X1 == RemoveLoop(X, node_name, lo, mid)
         IN  IF X1.raised # None THEN X1 ELSE RemoveLoop(X1, node_name, mid + 1, hi)

remove_node(R, node_name) ==
    IF node_name \notin DOMAIN R.nodes
    THEN [R |-> R, raised |-> None]
    ELSE LET X == RemoveLoop([R |-> R, raised |-> None], node_name, 1, Len(R.nodes[node_name]))
         IN  IF X.raised # None THEN X
             ELSE [R |-> [X.R EXCEPT !.nodes = DictPop(X.R.nodes, node_name)], raised |-> None]

\* get_node: the node name, None, or the exception raised
get_node_chars(hn, R, cs) ==
    IF DOMAIN R.ring = {}
    THEN None
    ELSE LET hash_value == hash_func(hn, cs)
             idx == bisect_left(R.sorted_keys, hash_value) % Len(R.sorted_keys)
             point == R.sorted_keys[idx + 1]
         IN  IF point \in DOMAIN R.ring THEN R.ring[point] ELSE KeyError

get_node(hn, R, key) == get_node_chars(hn, R, Chars(key))

Range(f) == {f[x] : x \in DOMAIN f}

\* one iteration of get_nodes' loop, lines 119-124, at offset i; W is
\* [unique_nodes, done, raised]: after a break or an exception nothing more runs.
\* A sorted key that is no key of the ring mapping raises KeyError
GetNodesStep(R, idx, count, W, i) ==
    IF W.done \/ W.raised # None THEN W
    ELSE LET point == R.sorted_keys[((idx + i) % Len(R.sorted_keys)) + 1]
         IN  IF point \notin DOMAIN R.ring THEN [W EXCEPT !.raised = KeyError]
             ELSE LET node == R.ring[point]
                  IN  IF \E m \in 1 .. Len(W.unique_nodes) : W.unique_nodes[m] = node
                      THEN W
                      ELSE [unique_nodes |-> Append(W.unique_nodes, node),
                            done |-> Len(W.unique_nodes) + 1 >= count,
                            raised |-> None]

\* iterations lo .. hi of that loop, in order
RECURSIVE GetNodesLoop(_, _, _, _, _, _)
GetNodesLoop(R, idx, count, W, lo, hi) ==
    IF lo > hi \/ W.done \/ W.raised # None THEN W
    ELSE IF hi = lo THEN GetNodesStep(R, idx, count, W, lo)
    ELSE LET mid == (lo + hi) \div 2
             W1 == GetNodesLoop(R, idx, count, W, lo, mid)
         IN  IF W1.done \/ W1.raised # None THEN W1
             ELSE GetNodesLoop(R, idx, count, W1, mid + 1, hi)

\* get_nodes: the list of node names, or the exception raised
get_nodes(hn, R, key, count) ==
    IF DOMAIN R.ring = {} \/ count <= 0
    THEN <<>>
    ELSE LET distinct == Cardinality(Range(R.ring))
             cnt == IF count > distinct THEN distinct ELSE count
             hash_value == hash_func(hn, Chars(key))
             idx == bisect_left(R.sorted_keys, hash_value) % Len(R.sorted_keys)
             W == GetNodesLoop(R, idx, cnt, [unique_nodes |-> <<>>, done |-> FALSE, raised |-> None],
                               0, Len(R.sorted_keys) - 1)
         IN  IF W.raised # None THEN W.raised ELSE W.unique_nodes

----------------------------------------------------------------------------
(* core/load_balancer.py *)

\* Server.__init__, lines 37-45: a new record is healthy and has no metrics
Server(address, port, weight, now) ==
    [address |-> address, port |-> port, weight |-> weight, healthy |-> TRUE,
     last_health_check |-> now,
     request_count |-> 0, error_count |-> 0, response_times |-> <<>>]

\* record_request that drops the newest sample of a full window
record_request_DropNewest(server, response_time) ==
    LET times == server.response_times \o response_time
    IN  [server EXCEPT !.request_count = @ + 1,
                       !.response_times = IF Len(times) > WindowSize
                                          THEN SubSeq(times, 1, WindowSize) ELSE times]

\* Server.record_request(response_time), lines 69-74, called by one thread;
\* response_time is <<>> for None and <<t>> for a duration t
record_request(server, response_time) ==
    LET times == server.response_times \o response_time
    IN  [server EXCEPT !.request_count = @ + 1,
                       !.response_times = IF Len(times) > WindowSize THEN Tail(times) ELSE times]

\* Server.record_error, line 78, called by one thread
record_error(server) == [server EXCEPT !.error_count = @ + 1]

\* the first name of the candidate list that is registered and healthy, lines 164-166
FirstHealthy(S, cands) ==
    LET ok == {m \in 1 .. Len(cands) : cands[m] \in DOMAIN S /\ S[cands[m]].healthy}
    IN  IF ok = {} THEN None ELSE cands[CHOOSE m \in ok : \A m2 \in ok : m <= m2]

\* the owner of the key returned whatever its health flag
get_server_Owner(hn, R, S, key) ==
    LET server_name == get_node(hn, R, key)
    IN  IF server_name = KeyError THEN KeyError
        ELSE IF server_name = None \/ server_name \notin DOMAIN S THEN None
        ELSE server_name

\* LoadBalancer.get_server: the name of the server returned, None, or the exception
get_server(hn, R, S, key) ==
    LET server_name == get_node(hn, R, key)
    IN  IF server_name = KeyError THEN KeyError
        ELSE IF server_name = None \/ server_name \notin DOMAIN S THEN None
        ELSE IF ~S[server_name].healthy
             THEN LET cands == get_nodes(hn, R, key, Cardinality(DOMAIN S))
                  IN  IF cands = KeyError THEN KeyError ELSE FirstHealthy(S, cands)
             ELSE server_name

\* sum(f(s) for s in S.values()) over the names of D, a subset of DOMAIN S
RECURSIVE SumOver(_, _, _)
SumOver(S, D, field) ==
    IF D = {} THEN 0
    ELSE LET n == CHOOSE x \in D : TRUE
         IN  (IF field = "request_count" THEN S[n].request_count
              ELSE IF field = "error_count" THEN S[n].error_count
              ELSE IF S[n].healthy THEN 1 ELSE 0)
             + SumOver(S, D \ {n}, field)

\* get_stats that reports every server as healthy
get_stats_AllHealthy(S) ==
    LET total_requests == SumOver(S, DOMAIN S, "request_count")
        total_errors == SumOver(S, DOMAIN S, "error_count")
    IN  [total_servers |-> Cardinality(DOMAIN S),
         healthy_servers |-> Cardinality(DOMAIN S),
         unhealthy_servers |-> 0,
         total_requests |-> total_requests,
         total_errors |-> total_errors,
         error_rate |-> IF total_requests > 0 THEN <<total_errors, total_requests>> ELSE <<0, 1>>]

\* LoadBalancer.get_stats, lines 263-275; error_rate is the fraction
\* <<numerator, denominator>>, <<0, 1>> for the 0 returned without a division
get_stats(S) ==
    LET total_requests == SumOver(S, DOMAIN S, "request_count")
        total_errors == SumOver(S, DOMAIN S, "error_count")
        healthy_count == SumOver(S, DOMAIN S, "healthy")
    IN  [total_servers |-> Cardinality(DOMAIN S),
         healthy_servers |-> healthy_count,
         unhealthy_servers |-> Cardinality(DOMAIN S) - healthy_count,
         total_requests |-> total_requests,
         total_errors |-> total_errors,
         error_rate |-> IF total_requests > 0 THEN <<total_errors, total_requests>> ELSE <<0, 1>>]

----------------------------------------------------------------------------
(* The state and the operations *)

TheRing == [ring |-> ring, sorted_keys |-> sorted_keys, nodes |-> nodes]

\* HealthChecker.__init__, lines 89-90: no thread, the stop event clear
NoLoop ==
    [alive |-> FALSE, stop |-> FALSE, pc |-> "none", todo |-> <<>>, cur |-> <<>>,
     snap |-> {}, log |-> <<>>, ctl |-> "idle", call |-> "none", orphans |-> 0]

SetRing(R) ==
    /\ ring' = R.ring
    /\ sorted_keys' = R.sorted_keys
    /\ nodes' = R.nodes

Init ==
    /\ hash_name \in HashNames
    /\ ring = <<>>
    /\ sorted_keys = <<>>
    /\ nodes = <<>>
    /\ servers = <<>>
    /\ last = [op |-> "init"]
    /\ hc_servers = <<>>
    /\ check_counters = <<>>
    /\ last_results = <<>>
    /\ loop = NoLoop
    /\ lock = None
    /\ wr = [op |-> "idle"]
    /\ srv = [request_count |-> 0, error_count |-> 0, response_times |-> <<>>]
    /\ thr = [t \in Threads |-> [pc |-> "idle"]]

\* the pool as the application builds it, on a hash function of 32 bits
InitApp == Init /\ hash_name = "djb2"

(* ConsistentHash used on its own *)

AddNode(n, w) ==
    /\ \E R \in {add_node(hash_name, TheRing, n, w)} : SetRing(R)
    /\ last' = [op |-> "add_node", name |-> n, weight |-> w, fresh |-> n \notin DOMAIN nodes]
    /\ UNCHANGED <<hash_name, servers, hcVars, thrVars>>

RemoveNode(n) ==
    \E X \in {remove_node(TheRing, n)} :
        /\ SetRing(X.R)
        /\ last' = [op |-> "remove_node", name |-> n, raised |-> X.raised, before |-> TheRing]
        /\ UNCHANGED <<hash_name, servers, hcVars, thrVars>>

\* a lookup that consumes the ring point it lands on
GetNode_Destructive(k) ==
    /\ last' = [op |-> "get_node", key |-> k, ret |-> get_node(hash_name, TheRing, k)]
    /\ sorted_keys' = IF Len(sorted_keys) = 0 THEN sorted_keys
                      ELSE LET idx == bisect_left(sorted_keys, hash_func(hash_name, Chars(k)))
                                      % Len(sorted_keys)
                           IN  SubSeq(sorted_keys, 1, idx) \o SubSeq(sorted_keys, idx + 2, Len(sorted_keys))
    /\ UNCHANGED <<hash_name, ring, nodes, servers, hcVars, thrVars>>

GetNode(k) ==
    /\ last' = [op |-> "get_node", key |-> k, ret |-> get_node(hash_name, TheRing, k)]
    /\ UNCHANGED <<poolVars, hcVars, thrVars>>

GetNodes(k, count) ==
    /\ last' = [op |-> "get_nodes", key |-> k, count |-> count,
                ret |-> get_nodes(hash_name, TheRing, k, count)]
    /\ UNCHANGED <<poolVars, hcVars, thrVars>>

NextRing ==
    \/ \E n \in Names, w \in RingWeights : AddNode(n, w)
    \/ \E n \in Names : RemoveNode(n)
    \/ \E k \in Keys : GetNode(k)
    \/ \E k \in Keys, count \in Counts : GetNodes(k, count)

SpecRing == Init /\ [][NextRing]_vars

(* A ring that grows and shrinks by whole nodes of the default weight, looked *)
(* up with the keys key_0 .. key_99                                           *)

GetSampleNode(i) ==
    /\ last' = [op |-> "get_node", key |-> i,
                ret |-> get_node_chars(hash_name, TheRing, SampleKey(i))]
    /\ UNCHANGED <<poolVars, hcVars, thrVars>>

NextGrow ==
    \/ \E n \in MoreNames : AddNode(n, DefaultWeight)
    \/ \E n \in MoreNames : RemoveNode(n)
    \/ \E i \in 0 .. NumKeys - 1 : GetSampleNode(i)

SpecGrow == InitApp /\ [][NextGrow]_vars

(* LoadBalancer *)

\* add_server that keeps the record a registered name already has
AddServer_KeepOld(n, e, w, now) ==
    /\ servers' = IF n \in DOMAIN servers THEN servers
                  ELSE DictSet(servers, n, Server(e[1], e[2], w, now))
    /\ \E R \in {add_node(hash_name, TheRing, n, w)} : SetRing(R)
    /\ last' = [op |-> "add_server", name |-> n, address |-> e[1], port |-> e[2],
                weight |-> w, previous |-> IF n \in DOMAIN servers THEN <<servers[n]>> ELSE <<>>]
    /\ UNCHANGED <<hash_name, hcVars, thrVars>>

\* add_server, lines 112-122; a Server(n, e[1], e[2], w) constructed at time
\* now is handed over
AddServer(n, e, w, now) ==
    /\ servers' = DictSet(servers, n, Server(e[1], e[2], w, now))
    /\ \E R \in {add_node(hash_name, TheRing, n, w)} : SetRing(R)
    /\ last' = [op |-> "add_server", name |-> n, address |-> e[1], port |-> e[2],
                weight |-> w, previous |-> IF n \in DOMAIN servers THEN <<servers[n]>> ELSE <<>>]
    /\ UNCHANGED <<hash_name, hcVars, thrVars>>

\* remove_server, lines 134-142: an exception of remove_node leaves the method
\* after the record was popped
RemoveServer(n) ==
    IF n \notin DOMAIN servers
    THEN /\ last' = [op |-> "remove_server", name |-> n, ret |-> FALSE, raised |-> None]
         /\ UNCHANGED <<poolVars, hcVars, thrVars>>
    ELSE \E X \in {remove_node(TheRing, n)} :
             /\ servers' = DictPop(servers, n)
             /\ SetRing(X.R)
             /\ last' = [op |-> "remove_server", name |-> n,
                          ret |-> IF X.raised = None THEN TRUE ELSE None, raised |-> X.raised]
             /\ UNCHANGED <<hash_name, hcVars, thrVars>>

\* mark_server_status, lines 183-195
\* the same with the flag written whether or not the name is registered
MarkServerStatus_Any(n, h, now) ==
    /\ servers' = DictSet(servers, n, [Server("localhost", 0, 1, now) EXCEPT !.healthy = h])
    /\ last' = [op |-> "mark_server_status", name |-> n, healthy |-> h, now |-> now,
                was |-> None, ret |-> TRUE]
    /\ UNCHANGED <<hash_name, ring, sorted_keys, nodes, hcVars, thrVars>>

MarkServerStatus(n, h, now) ==
    IF n \notin DOMAIN servers
    THEN /\ last' = [op |-> "mark_server_status", name |-> n, healthy |-> h, now |-> now,
                     was |-> None, ret |-> FALSE]
         /\ UNCHANGED <<poolVars, hcVars, thrVars>>
    ELSE /\ servers' = [servers EXCEPT ![n].healthy = h, ![n].last_health_check = now]
         /\ last' = [op |-> "mark_server_status", name |-> n, healthy |-> h, now |-> now,
                     was |-> servers[n].healthy, ret |-> TRUE]
         /\ UNCHANGED <<hash_name, ring, sorted_keys, nodes, hcVars, thrVars>>

GetServer(k) ==
    /\ last' = [op |-> "get_server", key |-> k,
                ret |-> get_server(hash_name, TheRing, servers, k)]
    /\ UNCHANGED <<poolVars, hcVars, thrVars>>

NextPool ==
    \/ \E n \in Names, w \in Weights : AddServer(n, OneEndpoint, w, "t1")
    \/ \E n \in Names : RemoveServer(n)
    \/ \E n \in Names, h \in BOOLEAN : MarkServerStatus(n, h, "t1")
    \/ \E k \in Keys : GetServer(k)

SpecPool == Init /\ [][NextPool]_vars

(* LoadBalancer with the records' fields and metrics followed *)

\* a request proxied to a registered server: record_request on success,
\* record_error on failure (api/server.py lines 146 and 163)
Proxy(n, ok) ==
    /\ n \in DOMAIN servers
    /\ servers[n].request_count + servers[n].error_count < MaxRequests
    /\ servers' = [servers EXCEPT ![n] = IF ok THEN record_request(@, <<0>>) ELSE record_error(@)]
    /\ last' = [op |-> "proxy", name |-> n, ok |-> ok]
    /\ UNCHANGED <<hash_name, ring, sorted_keys, nodes, hcVars, thrVars>>

\* registration: servers are added, re-added with another address, port or
\* weight, removed, and serve requests in between
NextServers ==
    \/ \E n \in Names, e \in Endpoints : AddServer(n, e, DefaultWeight, "t1")
    \/ \E n \in Names : RemoveServer(n)
    \/ \E n \in Names, ok \in BOOLEAN : Proxy(n, ok)

SpecServers == InitApp /\ [][NextServers]_vars

GetStats ==
    /\ last' = [op |-> "get_stats", ret |-> get_stats(servers)]
    /\ UNCHANGED <<poolVars, hcVars, thrVars>>

\* health marking: servers are added, removed, marked at different times, and
\* serve requests in between
NextStatus ==
    \/ \E n \in Names : AddServer(n, OneEndpoint, DefaultWeight, "t1")
    \/ \E n \in Names : RemoveServer(n)
    \/ \E n \in Names, h \in BOOLEAN, now \in Times : MarkServerStatus(n, h, now)
    \/ \E n \in Names : Proxy(n, TRUE)

SpecStatus == InitApp /\ [][NextStatus]_vars

\* statistics: servers are added, removed, marked, serve requests that succeed
\* or fail, and the statistics are read in between
NextStats ==
    \/ \E n \in Names : AddServer(n, OneEndpoint, DefaultWeight, "t1")
    \/ \E n \in Names : RemoveServer(n)
    \/ \E n \in Names, h \in BOOLEAN : MarkServerStatus(n, h, "t1")
    \/ \E n \in Names, ok \in BOOLEAN : Proxy(n, ok)
    \/ GetStats

SpecStats == InitApp /\ [][NextStats]_vars

\* a pool of up to three servers, all healthy, with lookups
NextThree ==
    \/ \E n \in MoreNames : AddServer(n, OneEndpoint, DefaultWeight, "t1")
    \/ \E n \in MoreNames : RemoveServer(n)
    \/ \E k \in Keys : GetServer(k)

SpecThree == Init /\ [][NextThree]_vars

\* a pool whose servers are registered, and registered again, with the weights
\* 1 and 3
NextReweigh ==
    \/ \E n \in Names, w \in RingWeights : AddServer(n, OneEndpoint, w, "t1")
    \/ \E n \in Names : RemoveServer(n)
    \/ \E k \in Keys : GetServer(k)

SpecReweigh == InitApp /\ [][NextReweigh]_vars

\* a pool whose callers also hand over weights that are zero or negative
NextAnyWeight ==
    \/ \E n \in Names, w \in AnyWeights : AddServer(n, OneEndpoint, w, "t1")
    \/ \E n \in Names : RemoveServer(n)
    \/ \E k \in Keys : GetServer(k)

SpecAnyWeight == Init /\ [][NextAnyWeight]_vars


(* HealthChecker, wired to the pool as api/routes.py does *)

\* HealthChecker.add_server, lines 110-116
HCAdd(H, id, check_type) ==
    [servers |-> DictSet(H.servers, id, check_type),
     counters |-> DictSet(H.counters, id, <<0, 0>>),
     results |-> H.results]

\* HealthChecker.remove_server, lines 125-128
HCRemove(H, id) ==
    IF id \in DOMAIN H.servers
    THEN [servers |-> DictPop(H.servers, id),
          counters |-> DictPop(H.counters, id),
          results |-> DictPop(H.results, id)]
    ELSE H

TheChecker == [servers |-> hc_servers, counters |-> check_counters, results |-> last_results]

SetChecker(H) ==
    /\ hc_servers' = H.servers
    /\ check_counters' = H.counters
    /\ last_results' = H.results

\* a check of any kind succeeds or fails with the network
CheckResult_Lenient(check_type, ok) == ok

\* _check_server, lines 190-205: a tcp check succeeds or fails with the network
\* (ok); any kind other than tcp, http, https gives a failure result
CheckResult(check_type, ok) == IF check_type = "tcp" THEN ok ELSE FALSE

\* the counters after a result, the other counter left as it was
Count_NoReset(c, is_healthy) == IF is_healthy THEN <<c[1] + 1, c[2]>> ELSE <<c[1], c[2] + 1>>

\* the counters after a result, both counting every check
Count_Both(c, is_healthy) == <<c[1] + 1, c[2] + 1>>

\* the counters after a result, lines 157-163
Count(c, is_healthy) == IF is_healthy THEN <<c[1] + 1, 0>> ELSE <<0, c[2] + 1>>

\* the thresholds compared with > instead of >=
Notify_Late(c) ==
    IF c[1] > healthy_threshold THEN "healthy"
    ELSE IF c[2] > unhealthy_threshold THEN "unhealthy"
    ELSE None

\* which notification the check makes, lines 168-171
Notify(c) ==
    IF c[1] >= healthy_threshold THEN "healthy"
    ELSE IF c[2] >= unhealthy_threshold THEN "unhealthy"
    ELSE None

\* HealthChecker.get_status(server_id)["is_healthy"], line 332: the result of
\* the last check, None before the first
StatusIsHealthy(id) ==
    IF id \notin DOMAIN last_results THEN None
    ELSE IF last_results[id] THEN "True" ELSE "False"

\* one iteration of _check_loop's body for a monitored server, lines 153-171;
\* _on_server_healthy and _on_server_unhealthy only log
CheckServer(id, ok) ==
    /\ id \in DOMAIN hc_servers
    /\ check_counters[id][1] < MaxCount /\ check_counters[id][2] < MaxCount
    /\ LET is_healthy == CheckResult(hc_servers[id], ok)
           c == Count(check_counters[id], is_healthy)
       IN  /\ last_results' = DictSet(last_results, id, is_healthy)
           /\ check_counters' = [check_counters EXCEPT ![id] = c]
           /\ last' = [op |-> "check", name |-> id, is_healthy |-> is_healthy,
                        notify |-> Notify(c), before |-> check_counters[id],
                        first |-> id \notin DOMAIN last_results]
    /\ UNCHANGED <<poolVars, hc_servers, loop, thrVars>>

(* HealthChecker used on its own *)

HCAddServer(id, check_type) ==
    /\ SetChecker(HCAdd(TheChecker, id, check_type))
    /\ last' = [op |-> "hc_add", name |-> id, fresh |-> id \notin DOMAIN hc_servers]
    /\ UNCHANGED <<poolVars, loop, thrVars>>

HCRemoveServer(id) ==
    /\ SetChecker(HCRemove(TheChecker, id))
    /\ last' = [op |-> "hc_remove", name |-> id]
    /\ UNCHANGED <<poolVars, loop, thrVars>>

NextHC ==
    \/ \E n \in Names, t \in CheckTypes : HCAddServer(n, t)
    \/ \E n \in Names : HCRemoveServer(n)
    \/ \E n \in Names, ok \in BOOLEAN : CheckServer(n, ok)

SpecHC == Init /\ [][NextHC]_vars

(* The checker's thread (_check_loop) and the calls of start and stop, while *)
(* another thread adds and removes monitored servers                         *)

\* the orders in which a dict with the keys of d can hold its items
Orders(d) ==
    {o \in [1 .. Cardinality(DOMAIN d) -> DOMAIN d] :
        \A i, j \in DOMAIN o : i # j => o[i] # o[j]}

\* an exception that ends the whole tick
Caught_Abort(L, id) ==
    [L EXCEPT !.log = Append(@, <<id, "raised">>), !.todo = <<>>, !.cur = <<>>, !.pc = "tick"]

\* except Exception, lines 173-174: the error is logged and the for loop goes
\* on with the next item
Caught(L, id) ==
    [L EXCEPT !.log = Append(@, <<id, "raised">>), !.cur = <<>>, !.pc = "tick"]

\* start, lines 130-139
Start ==
    /\ loop.ctl = "idle"
    /\ loop' = IF loop.alive
               THEN [loop EXCEPT !.call = "start"]
               ELSE [NoLoop EXCEPT !.alive = TRUE, !.pc = "top", !.call = "start"]
    /\ last' = [op |-> "start", running |-> loop.alive]
    /\ UNCHANGED <<poolVars, hc_servers, check_counters, last_results, thrVars>>

\* stop up to the join, lines 143-145; with no live thread it returns at once
StopBegin ==
    /\ loop.ctl = "idle"
    /\ loop' = IF loop.alive
               THEN [loop EXCEPT !.stop = TRUE, !.ctl = "joining"]
               ELSE [loop EXCEPT !.call = "stop"]
    /\ last' = [op |-> "stop", running |-> loop.alive]
    /\ UNCHANGED <<poolVars, hc_servers, check_counters, last_results, thrVars>>

\* join(timeout=5.0) returns because the thread has ended
StopJoined ==
    /\ loop.ctl = "joining" /\ ~loop.alive
    /\ loop' = [loop EXCEPT !.ctl = "idle", !.call = "stop"]
    /\ last' = [op |-> "stop_return", joined |-> TRUE]
    /\ UNCHANGED <<poolVars, hc_servers, check_counters, last_results, thrVars>>

\* join(timeout=5.0) returns after 5 seconds with the thread still at a check
\* of its tick: each check can block for `timeout` seconds on the connection
\* and again on the response, and the stop event is read only between ticks
StopTimeout ==
    /\ loop.ctl = "joining" /\ loop.alive
    /\ loop.pc = "count" \/ (loop.pc = "tick" /\ loop.todo # <<>>)
    /\ loop' = [loop EXCEPT !.ctl = "idle", !.call = "stop"]
    /\ last' = [op |-> "stop_return", joined |-> FALSE]
    /\ UNCHANGED <<poolVars, hc_servers, check_counters, last_results, thrVars>>

\* the loop entered whether or not the stop event is set
LoopTop_NoStop ==
    /\ loop.alive /\ loop.pc = "top"
    /\ \A id \in DOMAIN check_counters :
          check_counters[id][1] < MaxCount /\ check_counters[id][2] < MaxCount
    /\ \E o \in Orders(hc_servers) :
          loop' = [loop EXCEPT !.pc = "tick",
                               !.todo = [i \in DOMAIN o |-> <<o[i], hc_servers[o[i]]>>],
                               !.snap = DOMAIN hc_servers,
                               !.log = <<>>]
    /\ last' = [op |-> "loop"]
    /\ UNCHANGED <<poolVars, hc_servers, check_counters, last_results, thrVars>>

\* while not self._stop_event.is_set(), line 150, and the snapshot
\* list(self._servers.items()) of line 151; a tick begins only while every
\* counter is below MaxCount, so that the checks of the tick can all count
LoopTop ==
    /\ loop.alive /\ loop.pc = "top"
    /\ IF loop.stop
       THEN loop' = [loop EXCEPT !.alive = FALSE, !.pc = "none"]
       ELSE /\ \A id \in DOMAIN check_counters :
                  check_counters[id][1] < MaxCount /\ check_counters[id][2] < MaxCount
            /\ \E o \in Orders(hc_servers) :
                  loop' = [loop EXCEPT !.pc = "tick",
                                       !.todo = [i \in DOMAIN o |-> <<o[i], hc_servers[o[i]]>>],
                                       !.snap = DOMAIN hc_servers,
                                       !.log = <<>>]
    /\ last' = [op |-> "loop"]
    /\ UNCHANGED <<poolVars, hc_servers, check_counters, last_results, thrVars>>

\* lines 153-154 for the next item of the snapshot: _check_server returns a
\* result, which is stored, or raises; for a kind other than tcp, http, https it
\* returns at line 205 before anything can raise
TickResult(outcome) ==
    /\ loop.alive /\ loop.pc = "tick" /\ loop.todo # <<>>
    /\ outcome = "raise" => loop.todo[1][2] = "tcp"
    /\ LET id == loop.todo[1][1]
           L == [loop EXCEPT !.todo = Tail(@)]
       IN  IF outcome = "raise"
           THEN /\ loop' = Caught(L, id)
                /\ UNCHANGED last_results
           ELSE \E is_healthy \in {CheckResult(loop.todo[1][2], outcome = "ok")} :
                    /\ last_results' = DictSet(last_results, id, is_healthy)
                    /\ loop' = [L EXCEPT !.pc = "count", !.cur = <<id, is_healthy>>]
    /\ last' = [op |-> "loop"]
    /\ UNCHANGED <<poolVars, hc_servers, check_counters, thrVars>>

\* lines 157-171 for the result just stored: self._check_counters[server_id]
\* raises KeyError when the server was removed meanwhile
TickCount ==
    /\ loop.alive /\ loop.pc = "count"
    /\ LET id == loop.cur[1]
       IN  IF id \notin DOMAIN check_counters
           THEN /\ loop' = Caught(loop, id)
                /\ UNCHANGED check_counters
           ELSE /\ check_counters[id][1] < MaxCount /\ check_counters[id][2] < MaxCount
                /\ check_counters' =
                      [check_counters EXCEPT ![id] = Count(@, loop.cur[2])]
                /\ loop' = [loop EXCEPT !.log = Append(@, <<id, "counted">>),
                                        !.cur = <<>>, !.pc = "tick"]
    /\ last' = [op |-> "loop"]
    /\ UNCHANGED <<poolVars, hc_servers, last_results, thrVars>>

\* the for loop is exhausted: self._stop_event.wait(self.check_interval), line 177
TickEnd ==
    /\ loop.alive /\ loop.pc = "tick" /\ loop.todo = <<>>
    /\ loop' = [loop EXCEPT !.pc = "wait"]
    /\ last' = [op |-> "loop"]
    /\ UNCHANGED <<poolVars, hc_servers, check_counters, last_results, thrVars>>

\* the wait ends, by the interval or by the event
LoopWake ==
    /\ loop.alive /\ loop.pc = "wait"
    /\ loop' = [loop EXCEPT !.pc = "top", !.snap = {}, !.log = <<>>]
    /\ last' = [op |-> "loop"]
    /\ UNCHANGED <<poolVars, hc_servers, check_counters, last_results, thrVars>>

NextLoop ==
    \/ \E n \in Names, t \in CheckTypes : HCAddServer(n, t)
    \/ \E n \in Names : HCRemoveServer(n)
    \/ Start
    \/ StopBegin
    \/ StopJoined
    \/ StopTimeout
    \/ LoopTop
    \/ \E outcome \in {"ok", "fail", "raise"} : TickResult(outcome)
    \/ TickCount
    \/ TickEnd
    \/ LoopWake

SpecLoop == InitApp /\ [][NextLoop]_vars

\* the same thread and callers of start and stop over servers with tcp checks
\* that stay monitored
NextStop ==
    \/ \E n \in Names : HCAddServer(n, "tcp")
    \/ Start
    \/ StopBegin
    \/ StopJoined
    \/ StopTimeout
    \/ LoopTop
    \/ \E outcome \in {"ok", "fail", "raise"} : TickResult(outcome)
    \/ TickCount
    \/ TickEnd
    \/ LoopWake

\* the thread runs on when it can: a check returns within its timeout, the wait
\* of line 177 ends when the event is set (the interval may be as long as one
\* likes), and join returns when the thread has ended or the 5 seconds are over
SpecLoopFair ==
    /\ InitApp /\ [][NextStop]_vars
    /\ WF_vars(LoopTop)
    /\ WF_vars(\E outcome \in {"ok", "fail", "raise"} : TickResult(outcome))
    /\ WF_vars(TickCount)
    /\ WF_vars(TickEnd)
    /\ WF_vars(loop.stop /\ LoopWake)
    /\ WF_vars(StopJoined \/ StopTimeout)

\* POST /servers, api/routes.py lines 106-133: a name already in the pool is
\* answered 409; otherwise the server is added to the pool and to the checker
RouteAddServer(n, w, check_type) ==
    IF n \in DOMAIN servers
    THEN /\ last' = [op |-> "route_add", name |-> n, status |-> 409]
         /\ UNCHANGED <<poolVars, hcVars, thrVars>>
    ELSE /\ servers' = DictSet(servers, n, Server(OneEndpoint[1], OneEndpoint[2], w, "t1"))
         /\ \E R \in {add_node(hash_name, TheRing, n, w)} : SetRing(R)
         /\ SetChecker(HCAdd(TheChecker, n, check_type))
         /\ last' = [op |-> "route_add", name |-> n, status |-> 201]
         /\ UNCHANGED <<hash_name, loop, thrVars>>

\* DELETE /servers/<name>, api/routes.py lines 232-248: the checker forgets the
\* server only when remove_server returned True
RouteRemoveServer(n) ==
    IF n \notin DOMAIN servers
    THEN /\ last' = [op |-> "route_remove", name |-> n, status |-> 404]
         /\ UNCHANGED <<poolVars, hcVars, thrVars>>
    ELSE \E X \in {remove_node(TheRing, n)} :
             /\ servers' = DictPop(servers, n)
             /\ SetRing(X.R)
             /\ IF X.raised = None
                THEN SetChecker(HCRemove(TheChecker, n)) /\ UNCHANGED loop
                ELSE UNCHANGED hcVars
             /\ last' = [op |-> "route_remove", name |-> n,
                          status |-> IF X.raised = None THEN 200 ELSE 500]
             /\ UNCHANGED <<hash_name, thrVars>>

NextApp ==
    \/ \E n \in Names, w \in Weights, t \in CheckTypes : RouteAddServer(n, w, t)
    \/ \E n \in Names : RouteRemoveServer(n)
    \/ \E n \in Names, ok \in BOOLEAN : CheckServer(n, ok)
    \/ \E k \in Keys : GetServer(k)

SpecApp == InitApp /\ [][NextApp]_vars

(* Server.record_request / record_error called from request threads *)
(* (api/server.py lines 146 and 163): no lock is taken, so a thread switch can  *)
(* fall between any two of the steps below                                    *)

\* a server that has already recorded n requests with a response time
Recorded(n) ==
    [request_count |-> n, error_count |-> 0,
     response_times |-> [j \in 1 .. (IF n > WindowSize THEN WindowSize ELSE n) |-> 0]]

\* the states a server is in before the concurrent calls: new, or with a window
\* one short of full, or full; last.base is its request_count then
InitRecord ==
    /\ hash_name = "djb2"
    /\ ring = <<>> /\ sorted_keys = <<>> /\ nodes = <<>> /\ servers = <<>>
    /\ hc_servers = <<>> /\ check_counters = <<>> /\ last_results = <<>>
    /\ loop = NoLoop
    /\ lock = None
    /\ wr = [op |-> "idle"]
    /\ thr = [t \in Threads |-> [pc |-> "idle"]]
    /\ \E n \in {0, WindowSize - 1, WindowSize} :
          /\ srv = Recorded(n)
          /\ last = [op |-> "recorded", base |-> n]

\* a caller enters record_request (with a response time) or record_error
Call(t, kind) ==
    /\ thr[t].pc = "idle"
    /\ thr' = [thr EXCEPT ![t] = [pc |-> "load", kind |-> kind]]
    /\ UNCHANGED <<poolVars, hcVars, lock, wr, srv, last>>

\* self.request_count += 1 / self.error_count += 1: the read of the attribute
Load(t) ==
    /\ thr[t].pc = "load"
    /\ thr' = [thr EXCEPT ![t] = [pc |-> "store", kind |-> thr[t].kind,
                                  tmp |-> IF thr[t].kind = "request" THEN srv.request_count
                                          ELSE srv.error_count]]
    /\ UNCHANGED <<poolVars, hcVars, lock, wr, srv, last>>

\* ... and the write of the attribute
Store(t) ==
    /\ thr[t].pc = "store"
    /\ IF thr[t].kind = "request"
       THEN /\ srv' = [srv EXCEPT !.request_count = thr[t].tmp + 1]
            /\ thr' = [thr EXCEPT ![t] = [pc |-> "append", kind |-> "request"]]
       ELSE /\ srv' = [srv EXCEPT !.error_count = thr[t].tmp + 1]
            /\ thr' = [thr EXCEPT ![t] = [pc |-> "done", kind |-> "error"]]
    /\ UNCHANGED <<poolVars, hcVars, lock, wr, last>>

\* self.response_times.append(response_time), line 71
AppendTime(t) ==
    /\ thr[t].pc = "append"
    /\ srv' = [srv EXCEPT !.response_times = Append(@, t)]
    /\ thr' = [thr EXCEPT ![t] = [pc |-> "trim", kind |-> "request"]]
    /\ UNCHANGED <<poolVars, hcVars, lock, wr, last>>

\* if len(self.response_times) > 100: self.response_times.pop(0), lines 73-74
Trim(t) ==
    /\ thr[t].pc = "trim"
    /\ srv' = IF Len(srv.response_times) > WindowSize
              THEN [srv EXCEPT !.response_times = Tail(@)]
              ELSE srv
    /\ thr' = [thr EXCEPT ![t] = [pc |-> "done", kind |-> "request"]]
    /\ UNCHANGED <<poolVars, hcVars, lock, wr, last>>

NextRecord ==
    \/ \E t \in Threads, kind \in {"request", "error"} : Call(t, kind)
    \/ \E t \in Threads : Load(t)
    \/ \E t \in Threads : Store(t)
    \/ \E t \in Threads : AppendTime(t)
    \/ \E t \in Threads : Trim(t)

SpecRecord == InitRecord /\ [][NextRecord]_vars

(* Server.record_request called again and again by one thread, with a *)
(* duration (the k-th duration supplied is k) or without                *)

RecordRequest(timed) ==
    /\ srv.request_count < SampleRuns
    /\ LET d == IF last.op = "record_request" THEN last.samples ELSE 0
       IN  /\ srv' = IF timed THEN record_request(srv, <<d + 1>>) ELSE record_request(srv, <<>>)
           /\ last' = [op |-> "record_request", calls |-> srv.request_count + 1,
                        samples |-> IF timed THEN d + 1 ELSE d]
    /\ UNCHANGED <<poolVars, hcVars, lock, wr, thr>>

NextWindow == \E timed \in BOOLEAN : RecordRequest(timed)

SpecWindow == InitApp /\ [][NextWindow]_vars

(* HealthChecker.start and stop called from several threads: neither takes a  *)
(* lock, so a thread switch can fall between the test of line 132 and the      *)
(* lines that follow. loop is the thread self._check_thread refers to;         *)
(* loop.orphans counts the live threads of _check_loop it no longer refers to  *)

\* if self._check_thread and self._check_thread.is_alive(): return, lines 132-134
StartCheck(t) ==
    /\ thr[t].pc = "idle"
    /\ IF loop.alive
       THEN /\ loop' = [loop EXCEPT !.call = "start"]
            /\ UNCHANGED thr
       ELSE /\ thr' = [thr EXCEPT ![t] = [pc |-> "spawn"]]
            /\ UNCHANGED loop
    /\ last' = [op |-> "start", caller |-> t, running |-> loop.alive]
    /\ UNCHANGED <<poolVars, hc_servers, check_counters, last_results, lock, wr, srv>>

\* lines 136-138: the event is cleared, a new thread is made the checker's
\* thread and started; a thread that another caller started meanwhile runs on
StartSpawn(t) ==
    /\ thr[t].pc = "spawn"
    /\ loop.orphans < NumThreads
    /\ loop' = [loop EXCEPT !.alive = TRUE, !.stop = FALSE, !.pc = "top", !.call = "start",
                            !.orphans = IF loop.alive THEN @ + 1 ELSE @]
    /\ thr' = [thr EXCEPT ![t] = [pc |-> "idle"]]
    /\ last' = [op |-> "start_return", caller |-> t]
    /\ UNCHANGED <<poolVars, hc_servers, check_counters, last_results, lock, wr, srv>>

\* stop, lines 143-145: with a live thread the event is set and the caller joins
StopCall(t) ==
    /\ thr[t].pc = "idle"
    /\ IF loop.alive
       THEN /\ loop' = [loop EXCEPT !.stop = TRUE, !.call = "stop"]
            /\ thr' = [thr EXCEPT ![t] = [pc |-> "join"]]
       ELSE /\ loop' = [loop EXCEPT !.call = "stop"]
            /\ UNCHANGED thr
    /\ last' = [op |-> "stop", caller |-> t, running |-> loop.alive]
    /\ UNCHANGED <<poolVars, hc_servers, check_counters, last_results, lock, wr, srv>>

\* the join returns: the thread joined has ended
JoinReturn(t) ==
    /\ thr[t].pc = "joined"
    /\ thr' = [thr EXCEPT ![t] = [pc |-> "idle"]]
    /\ last' = [op |-> "stop_return", caller |-> t]
    /\ UNCHANGED <<poolVars, hcVars, lock, wr, srv>>

\* the checker's thread at line 150 with the event clear: a tick over no
\* servers, then the wait of line 177
LoopRun ==
    /\ loop.alive /\ loop.pc = "top" /\ ~loop.stop
    /\ loop' = [loop EXCEPT !.pc = "wait"]
    /\ last' = [op |-> "loop"]
    /\ UNCHANGED <<poolVars, hc_servers, check_counters, last_results, thrVars>>

\* the checker's thread at line 150 with the event set: it ends, and the joins
\* on it return
LoopExit ==
    /\ loop.alive /\ loop.pc = "top" /\ loop.stop
    /\ loop' = [loop EXCEPT !.alive = FALSE, !.pc = "none"]
    /\ thr' = [t \in Threads |-> IF thr[t].pc = "join" THEN [pc |-> "joined"] ELSE thr[t]]
    /\ last' = [op |-> "loop"]
    /\ UNCHANGED <<poolVars, hc_servers, check_counters, last_results, lock, wr, srv>>

\* a thread the checker no longer refers to reads the event at line 150 set
OrphanExit ==
    /\ loop.orphans > 0 /\ loop.stop
    /\ loop' = [loop EXCEPT !.orphans = @ - 1]
    /\ last' = [op |-> "loop"]
    /\ UNCHANGED <<poolVars, hc_servers, check_counters, last_results, thrVars>>

NextStart ==
    \/ \E t \in Threads : StartCheck(t)
    \/ \E t \in Threads : StartSpawn(t)
    \/ \E t \in Threads : StopCall(t)
    \/ \E t \in Threads : JoinReturn(t)
    \/ LoopRun
    \/ LoopWake
    \/ LoopExit
    \/ OrphanExit

SpecStart == InitApp /\ [][NextStart]_vars

(* Lookups while another thread changes the membership *)

Writer == "writer"

\* add_server up to the loop of add_node: the lock is taken, the record stored,
\* lines 112-117 and consistent_hash.py lines 42-45
BeginAddServer(n, w) ==
    /\ lock = None /\ wr.op = "idle"
    /\ lock' = Writer
    /\ servers' = DictSet(servers, n, Server(OneEndpoint[1], OneEndpoint[2], w, "t1"))
    /\ IF n \in DOMAIN nodes
       THEN /\ wr' = [op |-> "add", name |-> n, i |-> 0, hi |-> 0]
            /\ UNCHANGED nodes
       ELSE /\ wr' = [op |-> "add", name |-> n, i |-> 0, hi |-> w * VNodesPerWeight]
            /\ nodes' = DictSet(nodes, n, <<>>)
    /\ UNCHANGED <<hash_name, ring, sorted_keys, last, hcVars, srv, thr>>

\* one iteration of add_node's loop, under the lock
AddServerStep ==
    /\ wr.op = "add" /\ wr.i < wr.hi
    /\ \E R \in {AddPoint(hash_name, TheRing, wr.name, wr.i)} : SetRing(R)
    /\ wr' = [wr EXCEPT !.i = @ + 1]
    /\ UNCHANGED <<hash_name, servers, last, hcVars, lock, srv, thr>>

\* add_server returns and releases the lock
EndAddServer ==
    /\ wr.op = "add" /\ wr.i >= wr.hi
    /\ lock' = None
    /\ wr' = [op |-> "idle"]
    /\ UNCHANGED <<poolVars, last, hcVars, srv, thr>>

\* remove_server up to the loop of remove_node: the lock is taken and the record
\* popped, lines 134-140; an unknown name returns False at once
BeginRemoveServer(n) ==
    /\ lock = None /\ wr.op = "idle"
    /\ IF n \notin DOMAIN servers
       THEN UNCHANGED <<servers, lock, wr>>
       ELSE /\ servers' = DictPop(servers, n)
            /\ lock' = Writer
            /\ wr' = [op |-> "remove", name |-> n, i |-> 1,
                       hi |-> IF n \in DOMAIN nodes THEN Len(nodes[n]) ELSE 0,
                       known |-> n \in DOMAIN nodes]
    /\ UNCHANGED <<hash_name, ring, sorted_keys, nodes, last, hcVars, srv, thr>>

\* one iteration of remove_node's loop, under the lock; an exception leaves
\* remove_server and releases the lock
RemoveServerStep ==
    /\ wr.op = "remove" /\ wr.i <= wr.hi
    /\ \E X \in {RemovePoint([R |-> TheRing, raised |-> None], wr.name, wr.i)} :
          /\ SetRing(X.R)
          /\ IF X.raised = None
             THEN /\ wr' = [wr EXCEPT !.i = @ + 1]
                  /\ UNCHANGED lock
             ELSE /\ wr' = [op |-> "idle"]
                  /\ lock' = None
    /\ UNCHANGED <<hash_name, servers, last, hcVars, srv, thr>>

\* self.nodes.pop(node_name), then remove_server returns and releases the lock
EndRemoveServer ==
    /\ wr.op = "remove" /\ wr.i > wr.hi
    /\ nodes' = IF wr.known THEN DictPop(nodes, wr.name) ELSE nodes
    /\ lock' = None
    /\ wr' = [op |-> "idle"]
    /\ UNCHANGED <<hash_name, ring, sorted_keys, servers, last, hcVars, srv, thr>>

\* some but not all virtual points of the node being added or removed are on the ring
PartlyChanged ==
    \/ wr.op = "add" /\ 0 < wr.i /\ wr.i < wr.hi
    \/ wr.op = "remove" /\ 1 < wr.i /\ wr.i <= wr.hi

\* a ring entry whose owner is no key of the server map
StaleOwner == \E p \in DOMAIN ring : ring[p] \notin DOMAIN servers

\* LoadBalancer.get_server from another thread: it waits for the lock
LockedGetServer(k) ==
    /\ lock = None
    /\ last' = [op |-> "get_server", key |-> k,
                ret |-> get_server(hash_name, TheRing, servers, k),
                partial |-> PartlyChanged, stale |-> StaleOwner]
    /\ UNCHANGED <<poolVars, hcVars, thrVars>>

\* debug_lookup, api/routes.py line 342: get_nodes on the pool's ring, called
\* without the lock
CandidateLookup(k) ==
    /\ last' = [op |-> "get_nodes", key |-> k,
                ret |-> get_nodes(hash_name, TheRing, k, 3),
                partial |-> PartlyChanged, stale |-> StaleOwner]
    /\ UNCHANGED <<poolVars, hcVars, thrVars>>

NextLookup ==
    \/ \E n \in Names, w \in Weights : BeginAddServer(n, w)
    \/ AddServerStep
    \/ EndAddServer
    \/ \E n \in Names : BeginRemoveServer(n)
    \/ RemoveServerStep
    \/ EndRemoveServer
    \/ \E k \in Keys : LockedGetServer(k)
    \/ \E k \in Keys : CandidateLookup(k)

SpecLookup == InitApp /\ [][NextLookup]_vars

----------------------------------------------------------------------------
(* Properties *)

IsEmpty(d) == DOMAIN d = {}

StrictlyAscending(a) == \A j \in 1 .. Len(a) - 1 : a[j] < a[j + 1]

\* the ring points (keys of the ring mapping) at or after hash value h
PointsFrom(R, h) == {p \in DOMAIN R.ring : p >= h}

SetMin(S) == CHOOSE x \in S : \A y \in S : x <= y

\* the owner the ring topology assigns to hash value h: the owner of the smallest
\* ring point >= h, of the smallest ring point overall when there is none
RingOwner(R, h) ==
    IF PointsFrom(R, h) # {} THEN R.ring[SetMin(PointsFrom(R, h))]
    ELSE R.ring[SetMin(DOMAIN R.ring)]

\* C1: the physical nodes recorded in the ring (the keys of nodes, and the owners
\* appearing in ring) are exactly the registered servers
C1_RingNodesAreServers ==
    /\ DOMAIN nodes = DOMAIN servers
    /\ Range(ring) = DOMAIN servers

SomeHealthy == \E n \in DOMAIN servers : servers[n].healthy

\* C2: get_server returns a registered healthy server whenever one exists, and
\* None only when no registered server is healthy
C2_GetServerFindsHealthy ==
    last.op = "get_server" =>
        /\ SomeHealthy => (last.ret \in DOMAIN servers /\ servers[last.ret].healthy)
        /\ last.ret = None => ~SomeHealthy

\* C3: sorted_keys is strictly ascending, without duplicates, and its values are
\* exactly the keys of the ring mapping
C3_SortedKeysAreRingKeys ==
    /\ StrictlyAscending(sorted_keys)
    /\ {sorted_keys[j] : j \in 1 .. Len(sorted_keys)} = DOMAIN ring

\* C4: get_node returns None on an empty ring, and on a non-empty ring the owner
\* of the smallest ring point >= hash(key), wrapping to the smallest ring point
C4_GetNodeReturnsRingOwner ==
    last.op = "get_node" =>
        IF IsEmpty(ring) THEN last.ret = None
        ELSE last.ret = RingOwner(TheRing, hash_func(hash_name, Chars(last.key)))

C10_AddThenRemoveLeavesEmpty ==
    [][\A n \in Names, w \in Weights :
          (/\ TheRing = add_node(hash_name, EmptyRing, n, w)
           /\ last'.op = "remove_node" /\ last'.name = n)
          => (/\ last'.raised = None
              /\ IsEmpty(ring') /\ Len(sorted_keys') = 0 /\ IsEmpty(nodes')
              /\ \A k \in Keys :
                    get_node(hash_name, [ring |-> ring', sorted_keys |-> sorted_keys',
                                         nodes |-> nodes'], k) = None)]_vars

C7_PoolFlagFollowsChecker ==
    \A id \in DOMAIN hc_servers \cap DOMAIN servers :
        /\ check_counters[id][2] >= unhealthy_threshold => ~servers[id].healthy
        /\ check_counters[id][1] >= healthy_threshold => servers[id].healthy

AllDone == \A t \in Threads : thr[t].pc = "done"

Callers(kind) == Cardinality({t \in Threads : thr[t].pc = "done" /\ thr[t].kind = kind})

\* C8: when N callers have recorded a request (an error) on the same server
\* concurrently, request_count (error_count) has increased by exactly N, and the
\* response-time window holds at most 100 entries
C8_ConcurrentRecordsAllCount ==
    AllDone =>
        /\ srv.request_count = last.base + Callers("request")
        /\ srv.error_count = Callers("error")
        /\ Len(srv.response_times) <= WindowSize

\* C9: a lookup never sees a ring with only part of a node's virtual points
\* inserted or removed, nor a ring entry whose owner is absent from the server map
C9_LookupSeesWholeChange ==
    last.op \in {"get_server", "get_nodes"} => (~last.partial /\ ~last.stale)

\* the ring points owned by node n
Owned(R, n) == {p \in DOMAIN R.ring : R.ring[p] = n}

\* the hash values recorded for node n
Recorded_Points(R, n) == {R.nodes[n][j] : j \in 1 .. Len(R.nodes[n])}

\* C11: remove_node(n) changes the owner only of keys that n owned: a key owned
\* by another node keeps its owner, a key owned by n goes to one of the nodes
\* that remain (to none when no node remains)
C11_RemoveMovesOnlyOwnKeys ==
    [][(last'.op = "remove_node" /\ last'.name \in DOMAIN nodes) =>
          \A k \in Keys :
              LET before == get_node(hash_name, TheRing, k)
                  after == get_node(hash_name, TheRing', k)
                  remaining == DOMAIN nodes \ {last'.name}
              IN  /\ (before \in Names /\ before # last'.name) => after = before
                  /\ before = last'.name =>
                        (IF remaining = {} THEN after = None ELSE after \in remaining)]_vars

\* C12: remove_node(n) followed by add_node(n, w) with the weight n had gives
\* back the ring (mapping, sorted sequence, point lists) as it was before the
\* removal, and so the same owner for every key
C12_ReAddRestoresRing ==
    [][(/\ last.op = "remove_node" /\ last.name \in DOMAIN last.before.nodes
        /\ last'.op = "add_node" /\ last'.name = last.name
        /\ last'.weight * VNodesPerWeight = Len(last.before.nodes[last.name]))
       => /\ TheRing' = last.before
          /\ \A k \in Keys :
                get_node(hash_name, TheRing', k) = get_node(hash_name, last.before, k)]_vars

\* C13: add_node(n, w) puts exactly w * 100 points owned by n on the ring, a node
\* on the ring keeps owning exactly the points recorded for it, and remove_node(n)
\* completes and leaves no point of n in the mapping or the sorted sequence
C13_NodeOwnsWeightTimesK ==
    /\ [](\A n \in DOMAIN nodes : Cardinality(Owned(TheRing, n)) = Len(nodes[n]))
    /\ [][(last'.op = "add_node" /\ last'.fresh) =>
              Cardinality(Owned(TheRing', last'.name)) = last'.weight * VNodesPerWeight]_vars
    /\ [][(last'.op = "remove_node" /\ last'.name \in DOMAIN nodes) =>
              /\ last'.raised = None
              /\ Owned(TheRing', last'.name) = {}
              /\ \A j \in 1 .. Len(sorted_keys') :
                    sorted_keys'[j] \notin Recorded_Points(TheRing, last'.name)
              /\ last'.name \notin DOMAIN nodes']_vars

\* C14: get_nodes(key, count) returns pairwise distinct node names, as many as
\* min(count, number of nodes added to the ring), none when count <= 0 or the
\* ring is empty
C14_GetNodesLength ==
    last.op = "get_nodes" =>
        /\ last.ret # KeyError
        /\ \A i, j \in 1 .. Len(last.ret) : i # j => last.ret[i] # last.ret[j]
        /\ Len(last.ret) =
              IF last.count <= 0 \/ IsEmpty(ring) THEN 0
              ELSE IF last.count < Cardinality(DOMAIN nodes) THEN last.count
              ELSE Cardinality(DOMAIN nodes)

\* C15: add_node(id, w) for an id that is on the ring leaves the ring mapping,
\* the sorted sequence and the point lists as they were, whatever w is
C15_AddNodeIdempotentByName ==
    [][(last'.op = "add_node" /\ last'.name \in DOMAIN nodes) =>
          UNCHANGED <<ring, sorted_keys, nodes>>]_vars

\* a second add_node of a name on the ring, with a weight other than the one
\* it has
C15_Witness ==
    /\ last.op = "add_node" /\ ~last.fresh
    /\ last.name \in DOMAIN nodes
    /\ Len(nodes[last.name]) # last.weight * VNodesPerWeight
    /\ Cardinality(Owned(TheRing, last.name)) = Len(nodes[last.name])

\* C16: add_server for a name that is registered overwrites the address, port
\* and weight of the record and keeps its request count, error count and
\* response-time window
C16_ReRegisterKeepsMetrics ==
    [][(last'.op = "add_server" /\ last'.name \in DOMAIN servers) =>
          LET old == servers[last'.name]
              new == servers'[last'.name]
          IN  /\ new.address = last'.address /\ new.port = last'.port
              /\ new.weight = last'.weight
              /\ new.request_count = old.request_count
              /\ new.error_count = old.error_count
              /\ new.response_times = old.response_times]_vars

\* C17: add_server for a name that is registered is accepted: the pool holds the
\* same names as before, one record under that name, and that record carries
\* the address and port just supplied
C17_ReRegisterIsAccepted ==
    [][(last'.op = "add_server" /\ last'.name \in DOMAIN servers) =>
          /\ DOMAIN servers' = DOMAIN servers
          /\ servers'[last'.name].address = last'.address
          /\ servers'[last'.name].port = last'.port]_vars

\* a registered name added again with another port, next to a second server
C17_Witness ==
    /\ last.op = "add_server" /\ Len(last.previous) = 1
    /\ last.previous[1].port # last.port
    /\ servers[last.name].port = last.port
    /\ Cardinality(DOMAIN servers) = 2

\* C18: when the ring's owner of the key is no registered server, get_server
\* does not raise and returns what the candidate walk over
\* get_nodes(key, len(servers)) gives: the first registered healthy candidate,
\* None when there is none
C18_StaleOwnerFallsBackToWalk ==
    last.op = "get_server" =>
        LET owner == get_node(hash_name, TheRing, last.key)
            cands == get_nodes(hash_name, TheRing, last.key, Cardinality(DOMAIN servers))
        IN  (owner \in MoreNames /\ owner \notin DOMAIN servers) =>
                /\ last.ret # KeyError
                /\ cands # KeyError => last.ret = FirstHealthy(servers, cands)

\* C19: mark_server_status(name, healthy) returns False and changes nothing for
\* an unregistered name; for a registered name it returns True, whether or not
\* the flag changes, sets the flag and last_health_check, and changes no other
\* record, no metric and nothing of the ring
C19_MarkServerStatusFrame ==
    [][last'.op = "mark_server_status" =>
          IF last'.name \notin DOMAIN servers
          THEN last'.ret = FALSE /\ UNCHANGED <<servers, ring, sorted_keys, nodes>>
          ELSE /\ last'.ret = TRUE
               /\ DOMAIN servers' = DOMAIN servers
               /\ servers'[last'.name] =
                     [servers[last'.name] EXCEPT !.healthy = last'.healthy,
                                                 !.last_health_check = last'.now]
               /\ \A m \in DOMAIN servers \ {last'.name} : servers'[m] = servers[m]
               /\ UNCHANGED <<ring, sorted_keys, nodes>>]_vars

\* a registered server that has served a request is marked with the flag it
\* already has, at a later time, next to a second server
C19_Witness ==
    /\ last.op = "mark_server_status" /\ last.ret = TRUE
    /\ last.was = last.healthy /\ last.now = "t2"
    /\ servers[last.name].last_health_check = "t2"
    /\ servers[last.name].request_count > 0
    /\ Cardinality(DOMAIN servers) = 2

\* C20: remove_server(name) never raises; for an unknown name it returns False
\* and leaves the server map and the ring as they were; for a registered name it
\* returns True and nothing of that name is left in the server map, the ring
\* mapping, the sorted sequence or the node table
C20_RemoveServerNeverRaises ==
    [][last'.op = "remove_server" =>
          /\ last'.raised = None
          /\ IF last'.name \notin DOMAIN servers
             THEN last'.ret = FALSE /\ UNCHANGED <<servers, ring, sorted_keys, nodes>>
             ELSE /\ last'.ret = TRUE
                  /\ last'.name \notin DOMAIN servers'
                  /\ last'.name \notin DOMAIN nodes'
                  /\ Owned(TheRing', last'.name) = {}
                  /\ last'.name \in DOMAIN nodes =>
                        \A j \in 1 .. Len(sorted_keys') :
                            sorted_keys'[j] \notin Recorded_Points(TheRing, last'.name)]_vars

\* C21: add_server with a weight that is zero or negative leaves the pool and
\* the ring as they were, and no registered server has such a weight and no
\* ring node has zero virtual points
C21_NonPositiveWeightRejected ==
    /\ [](\A n \in DOMAIN servers : servers[n].weight > 0)
    /\ [](\A n \in DOMAIN nodes : Len(nodes[n]) > 0)
    /\ [][(last'.op = "add_server" /\ last'.weight <= 0) =>
              UNCHANGED <<servers, ring, sorted_keys, nodes>>]_vars

\* C22: after any sequence of record_request calls request_count is the number
\* of calls, the window holds at most 100 samples, and it holds the most recent
\* min(100, d) of the d durations supplied, oldest first
C22_WindowKeepsMostRecent ==
    last.op = "record_request" =>
        LET d == last.samples
            m == IF d > WindowSize THEN WindowSize ELSE d
        IN  /\ srv.request_count = last.calls
            /\ Len(srv.response_times) <= WindowSize
            /\ Len(srv.response_times) = m
            /\ \A j \in 1 .. m : srv.response_times[j] = d - m + j

\* 150 durations recorded: the last 100 are kept
C22_Witness ==
    /\ last.op = "record_request" /\ last.samples = SampleRuns
    /\ Len(srv.response_times) = WindowSize
    /\ srv.response_times[1] = SampleRuns - WindowSize + 1

\* the counter f of server n, 0 for a name that is not registered
CounterOf(n, f) ==
    IF n \notin DOMAIN servers THEN 0
    ELSE IF f = "request_count" THEN servers[n].request_count ELSE servers[n].error_count

\* the counter f added up over the names a pool of the model can hold
TotalOf(f) == CounterOf("s1", f) + CounterOf("s2", f) + CounterOf("s3", f)

\* C23: get_stats returns the number of registered servers, the numbers of
\* servers flagged healthy and not healthy (which add up to it), the sums of the
\* servers' request and error counters, and the error rate 0 when no request
\* was counted
C23_StatsAreTotals ==
    last.op = "get_stats" =>
        LET st == last.ret
        IN  /\ st.total_servers = Cardinality(DOMAIN servers)
            /\ st.healthy_servers = Cardinality({n \in DOMAIN servers : servers[n].healthy})
            /\ st.healthy_servers + st.unhealthy_servers = st.total_servers
            /\ st.total_requests = TotalOf("request_count")
            /\ st.total_errors = TotalOf("error_count")
            /\ st.total_requests = 0 => st.error_rate = <<0, 1>>
            /\ st.total_requests > 0 => st.error_rate = <<st.total_errors, st.total_requests>>

\* statistics of two servers, one flagged unhealthy, one request and one error
\* counted
C23_Witness ==
    /\ last.op = "get_stats"
    /\ last.ret.total_servers = 2 /\ last.ret.unhealthy_servers = 1
    /\ last.ret.total_requests = 1 /\ last.ret.total_errors = 1
    /\ last.ret.error_rate = <<1, 1>>

\* C24: a successful check adds 1 to the server's success counter and sets its
\* failure counter to 0, a failed check adds 1 to the failure counter and sets
\* the success counter to 0, and no other server's counters change
C24_CheckUpdatesCounters ==
    [][last'.op = "check" =>
          LET id == last'.name
          IN  /\ last'.is_healthy =>
                    check_counters'[id] = <<check_counters[id][1] + 1, 0>>
              /\ ~last'.is_healthy =>
                    check_counters'[id] = <<0, check_counters[id][2] + 1>>
              /\ DOMAIN check_counters' = DOMAIN check_counters
              /\ \A m \in DOMAIN check_counters \ {id} :
                    check_counters'[m] = check_counters[m]]_vars

\* a failed check of a server with successes counted, next to a second server
\* with counts of its own
C24_Witness ==
    /\ last.op = "check" /\ ~last.is_healthy /\ last.before[1] > 0
    /\ check_counters[last.name] = <<0, 1>>
    /\ \E m \in DOMAIN check_counters \ {last.name} : check_counters[m] # <<0, 0>>

\* C25: a server newly added to the checker has both counters at 0 and is
\* reported healthy by get_status, before any check and after a first check
\* that failed (one failure being fewer than unhealthy_threshold)
C25_NewServerIsHealthy ==
    /\ (last.op = "hc_add" /\ last.fresh) =>
          /\ check_counters[last.name] = <<0, 0>>
          /\ StatusIsHealthy(last.name) = "True"
    /\ (last.op = "check" /\ last.first /\ last.name \in DOMAIN hc_servers
         /\ check_counters[last.name][2] < unhealthy_threshold) =>
          StatusIsHealthy(last.name) = "True"

\* C26: a check notifies only when it brings the run of failures (successes) to
\* exactly the threshold; a check of a run already at or above the threshold
\* notifies nothing
C26_NotifyOnlyOnCrossing ==
    last.op = "check" =>
        /\ last.notify = "unhealthy" => last.before[2] + 1 = unhealthy_threshold
        /\ last.notify = "healthy" => last.before[1] + 1 = healthy_threshold

\* the servers whose check in the running tick raised / updated the counters
Logged(kind) == {loop.log[i][1] : i \in {j \in DOMAIN loop.log : loop.log[j][2] = kind}}

\* C27: when a tick has come to its end (the loop waits for the next one),
\* every server of the tick's snapshot whose own check raised nothing has had
\* its counters updated in the tick, whatever the checks of the others raised;
\* and the thread ends nowhere but at the top of the loop with the stop event set
C27_ExceptionStaysInItsIteration ==
    /\ [](loop.pc = "wait" => loop.snap \ Logged("raised") \subseteq Logged("counted"))
    /\ [][loop.alive /\ ~loop'.alive => loop.pc = "top" /\ loop.stop]_vars

\* a finished tick in which the check of the first server raised and the check
\* of the second updated its counters
C27_Witness ==
    /\ loop.pc = "wait" /\ Len(loop.log) = 2
    /\ loop.log[1][2] = "raised" /\ loop.log[2][2] = "counted"
    /\ loop.log[1][1] # loop.log[2][1]

\* C28: start with the loop running and stop with no loop running change
\* nothing, and once start has returned after a stop that returned, the loop
\* runs (until stop is called again)
C28_StartStopIdempotent ==
    /\ [][last'.op = "start" /\ last'.running =>
             /\ loop' = [loop EXCEPT !.call = "start"]
             /\ UNCHANGED <<hc_servers, check_counters, last_results>>]_vars
    /\ [][last'.op = "stop" /\ ~last'.running =>
             /\ loop' = [loop EXCEPT !.call = "stop"]
             /\ UNCHANGED <<hc_servers, check_counters, last_results>>]_vars
    /\ [](loop.call = "start" /\ loop.ctl = "idle" => loop.alive)

\* the sample keys whose owner differs between the rings R and Q
Moved(R, Q) ==
    {i \in 0 .. NumKeys - 1 :
        get_node_chars(hash_name, R, SampleKey(i)) # get_node_chars(hash_name, Q, SampleKey(i))}

\* C29: adding one more node to a ring of two or more nodes changes the owner
\* returned by get_node for fewer than half of the keys key_0 .. key_99
C29_MinimalDisruption ==
    [][(last'.op = "add_node" /\ last'.fresh /\ Cardinality(DOMAIN nodes) >= 2) =>
          2 * Cardinality(Moved(TheRing, TheRing')) < NumKeys]_vars

\* C30: a server returned by get_server is a record of the server map with its
\* health flag set, in every state reached by add_server, remove_server and
\* mark_server_status
C30_GetServerReturnsHealthyMember ==
    (last.op = "get_server" /\ last.ret \notin {None, KeyError}) =>
        /\ last.ret \in DOMAIN servers
        /\ servers[last.ret].healthy

\* get_server passed over the unhealthy owner of the key and returned another,
\* healthy server
C30_Witness ==
    /\ last.op = "get_server" /\ last.ret \in DOMAIN servers
    /\ get_node(hash_name, TheRing, last.key) \in DOMAIN servers \ {last.ret}
    /\ ~servers[get_node(hash_name, TheRing, last.key)].healthy
    /\ servers[last.ret].healthy

\* ring point p is met no later than ring point q when the sorted ring is
\* walked forward from hash value h with wrap-around
MetBefore(h, p, q) == IF (p < h) = (q < h) THEN p <= q ELSE q < h

\* the point of node n that the walk from h meets first
FirstMet(R, h, n) == CHOOSE p \in Owned(R, n) : \A q \in Owned(R, n) : MetBefore(h, p, q)

\* the registered healthy server whose virtual point the walk from h meets first
WalkFirstHealthy(R, S, h) ==
    LET H == {n \in DOMAIN S : S[n].healthy /\ Owned(R, n) # {}}
    IN  IF H = {} THEN None
        ELSE CHOOSE n \in H : \A m \in H : MetBefore(h, FirstMet(R, h, n), FirstMet(R, h, m))

\* C31: when the owner of the key is registered and unhealthy, get_server
\* returns the healthy server whose virtual point comes first on the walk
\* forward from the key's position, None when no server on the ring is healthy
C31_FallbackIsFirstHealthyOnWalk ==
    (last.op = "get_server" /\ ~IsEmpty(ring)) =>
        LET h == hash_func(hash_name, Chars(last.key))
            owner == RingOwner(TheRing, h)
        IN  (owner \in DOMAIN servers /\ ~servers[owner].healthy) =>
                last.ret = WalkFirstHealthy(TheRing, servers, h)

\* the owners of ring R that the walk from h meets before it first meets node n
MetEarlier(R, h, n) ==
    {m \in Range(R.ring) \ {n} : MetBefore(h, FirstMet(R, h, m), FirstMet(R, h, n))}

\* sequence a is a prefix of sequence b
IsPrefix(a, b) == Len(a) <= Len(b) /\ \A i \in 1 .. Len(a) : a[i] = b[i]

\* C32: on a non-empty ring with count >= 1, get_nodes(key, count) starts with
\* get_node(key), lists distinct owners in the order the walk forward from the
\* key's position first meets them, leaving out none that is met earlier than a
\* listed one, and is a prefix of get_nodes(key, count + 1)
C32_GetNodesFollowsWalk ==
    (last.op = "get_nodes" /\ last.count >= 1 /\ ~IsEmpty(ring)) =>
        LET h == hash_func(hash_name, Chars(last.key))
            more == get_nodes(hash_name, TheRing, last.key, last.count + 1)
        IN  /\ last.ret # KeyError
            /\ Len(last.ret) >= 1
            /\ last.ret[1] = RingOwner(TheRing, h)
            /\ \A i \in 1 .. Len(last.ret) :
                  MetEarlier(TheRing, h, last.ret[i]) = {last.ret[j] : j \in 1 .. i - 1}
            /\ more # KeyError
            /\ IsPrefix(last.ret, more)

\* C33: after any add_server and remove_server calls, every registered server
\* owns as many ring points as its record's weight times 100
C33_PointsFollowRecordWeight ==
    \A n \in DOMAIN servers :
        Cardinality(Owned(TheRing, n)) = servers[n].weight * VNodesPerWeight

\* the keys looked up around an addition: key_0 .. key_99 and the keys of Keys
ProbeKeys == {SampleKey(i) : i \in 0 .. NumKeys - 1} \cup {Chars(k) : k \in Keys}

\* C34: add_node(n, w) moves keys only to n: for every key, get_node after the
\* addition returns what it returned before or n
C34_AddMovesKeysOnlyToNewNode ==
    [][last'.op = "add_node" =>
          \A cs \in ProbeKeys :
              \/ get_node_chars(hash_name, TheRing', cs) = get_node_chars(hash_name, TheRing, cs)
              \/ get_node_chars(hash_name, TheRing', cs) = last'.name]_vars

\* a third node has just been added; it took some of the keys and left the
\* others with the nodes that were there
C34_Witness ==
    /\ last.op = "add_node" /\ last.fresh /\ Cardinality(DOMAIN nodes) = 3
    /\ \E cs \in ProbeKeys : get_node_chars(hash_name, TheRing, cs) = last.name
    /\ \E cs \in ProbeKeys : get_node_chars(hash_name, TheRing, cs) \in DOMAIN nodes \ {last.name}

\* C35: a server that is not monitored (removed and not added again) has no
\* entry in _check_counters or _last_results, whatever a tick that had started
\* checking it does afterwards; and the counters of a server just added stay
\* at (0, 0) in the step that follows add_server, which can only belong to a
\* check that started before the call
C35_NoStateAfterRemove ==
    /\ [](\A id \in Names :
            id \notin DOMAIN hc_servers =>
                id \notin DOMAIN check_counters /\ id \notin DOMAIN last_results)
    /\ [][last.op = "hc_add" =>
             \/ last.name \notin DOMAIN check_counters'
             \/ check_counters'[last.name] = <<0, 0>>]_vars

\* C36: once stop has set the event on a live thread, the thread exits, without
\* the interval having to elapse; it begins no tick with the event set; and the
\* join of stop returns
C36_StopEndsTheLoop ==
    /\ (loop.alive /\ loop.stop) ~> ~loop.alive
    /\ (loop.ctl = "joining") ~> (loop.ctl = "idle")
    /\ [][~(loop.stop /\ loop.pc = "top" /\ loop'.pc = "tick")]_vars

\* stop has returned after its join timed out, and the thread has since left
\* the loop
C36_Witness ==
    /\ last.op = "loop" /\ loop.call = "stop" /\ loop.ctl = "idle"
    /\ loop.stop /\ ~loop.alive

C38_AtMostOneLoop ==
    /\ (IF loop.alive THEN 1 ELSE 0) + loop.orphans <= 1
    /\ loop.call = "start" => loop.alive

\* C39: for every monitored server both counters are >= 0 and at most one of
\* them is non-zero, so that the healthy and the unhealthy threshold are never
\* both reached
C39_OneCounterIsZero ==
    \A id \in DOMAIN check_counters :
        /\ check_counters[id][1] >= 0 /\ check_counters[id][2] >= 0
        /\ check_counters[id][1] = 0 \/ check_counters[id][2] = 0
        /\ ~(check_counters[id][1] >= healthy_threshold
             /\ check_counters[id][2] >= unhealthy_threshold)

\* the thread has counted for two servers in one tick: one has reached the
\* healthy threshold, the other the unhealthy threshold
C39_Witness ==
    /\ loop.pc = "wait" /\ Len(loop.log) = 2
    /\ loop.log[1][2] = "counted" /\ loop.log[2][2] = "counted"
    /\ \E a, b \in DOMAIN check_counters :
          /\ check_counters[a][1] >= healthy_threshold
          /\ check_counters[b][2] >= unhealthy_threshold

\* C40: the health flag held for a server name changes only in a step of
\* mark_server_status for that name: lookups, statistics, recorded requests and
\* errors, and add_server for this or another name leave it as it was
C40_FlagChangesOnlyByMark ==
    [][\A n \in DOMAIN servers \cap DOMAIN servers' :
          servers'[n].healthy # servers[n].healthy =>
              (last'.op = "mark_server_status" /\ last'.name = n)]_vars

====
